---- MODULE Spec2Model ----
(***************************************************************************)
(* requests-forwarder: the process-wide proxy configuration (_state), the  *)
(* monkey-patch of requests.Session.request (setup_proxy / disable_proxy)  *)
(* and the request hook (_patched_request) of requests_forwarder/core.py.  *)
(*                                                                         *)
(* Text (URLs, tokens, header values, query strings) is a sequence of      *)
(* lexical tokens, so that rstrip, urlparse, parse_qs and concatenation    *)
(* are computed rather than assumed.  A Python value whose type varies is  *)
(* a tagged record: [tag |-> "None"], [tag |-> "str", val |-> s], ...      *)
(*                                                                         *)
(* Request URLs are str (never bytes), proxy_base_url is always passed,    *)
(* and query strings hold no percent-escapes, so unquote changes nothing.  *)
(***************************************************************************)
EXTENDS Naturals, Sequences, FiniteSets

VARIABLES
    state,            \* the module-level _state dict
    Session_request,  \* the function installed as requests.Session.request
    before_patch,     \* history: what was installed when the hook was last installed
    call,             \* the last public call: its arguments and what it did
    threads           \* a request and a setup_proxy / disable_proxy call in progress

vars == <<state, Session_request, before_patch, call, threads>>

---------------------------------------------------------------------------
(* Python values *)

PyNone == [tag |-> "None"]
PyStr(s) == [tag |-> "str", val |-> s]
PyList(l) == [tag |-> "list", val |-> l]
PyDict(d) == [tag |-> "dict", val |-> d]
PyBytes(s) == [tag |-> "bytes", val |-> s]
Absent == [tag |-> "absent"]

\* Python truthiness of the values the code tests with `if x` / `not x`.
Truthy(v) ==
    CASE v.tag = "None" -> FALSE
      [] v.tag = "absent" -> FALSE
      [] v.tag = "str" -> v.val # <<>>
      [] v.tag = "bytes" -> v.val # <<>>
      [] v.tag = "list" -> v.val # <<>>
      [] v.tag = "dict" -> DOMAIN v.val # {}
      [] OTHER -> TRUE

Range(s) == {s[i] : i \in 1..Len(s)}

---------------------------------------------------------------------------
(* Constants of core.py *)

DEFAULT_API_HOST == <<"api.telegram.org">>
FORWARD_ENDPOINT == <<"/", "forward">>

---------------------------------------------------------------------------
(* str.rstrip("/") *)

RECURSIVE rstrip(_, _)
rstrip(s, ch) ==
    IF Len(s) > 0 /\ s[Len(s)] = ch THEN rstrip(SubSeq(s, 1, Len(s) - 1), ch) ELSE s

(* urllib.parse.urlparse(u).hostname on token sequences *)

SchemeTokens == {"https:", "http:"}
NetlocEndTokens == {"/", "?", "#"}
UserinfoTokens == {"user@"}
PortTokens == {":8443"}

lower(t) ==
    CASE t = "API.Telegram.org" -> "api.telegram.org"
      [] t = "FW.Test" -> "fw.test"
      [] OTHER -> t

\* the text after the scheme, if the text starts with one
AfterScheme(u) == IF Len(u) > 0 /\ u[1] \in SchemeTokens THEN Tail(u) ELSE u

\* _splitnetloc: the text between a leading "//" and the next of "/", "?", "#"
RECURSIVE UpTo(_, _)
UpTo(s, stops) ==
    IF s = <<>> \/ Head(s) \in stops THEN <<>> ELSE <<Head(s)>> \o UpTo(Tail(s), stops)

netloc(u) ==
    LET rest == AfterScheme(u)
    IN IF Len(rest) >= 2 /\ rest[1] = "/" /\ rest[2] = "/"
       THEN UpTo(SubSeq(rest, 3, Len(rest)), NetlocEndTokens)
       ELSE <<>>

\* urlsplit raises ValueError("Invalid IPv6 URL") on an unbalanced bracket
urlparse_raises(u) ==
    LET n == Range(netloc(u))
    IN \/ ("[" \in n /\ "]" \notin n)
       \/ ("]" \in n /\ "[" \notin n)

\* netloc.rpartition('@')[2]
RECURSIVE AfterUserinfo(_)
AfterUserinfo(n) ==
    IF \E i \in 1..Len(n) : n[i] \in UserinfoTokens
    THEN AfterUserinfo(Tail(n))
    ELSE n

\* the text after the first token of `stops`, or the empty text
RECURSIVE After(_, _)
After(s, stops) ==
    IF s = <<>> THEN <<>> ELSE IF Head(s) \in stops THEN Tail(s) ELSE After(Tail(s), stops)

\* the hostname property: None when empty, else lower-cased
hostname(u) ==
    LET hostinfo == AfterUserinfo(netloc(u))
        host == IF "[" \in Range(hostinfo)
                THEN UpTo(After(hostinfo, {"["}), {"]"})
                ELSE UpTo(hostinfo, PortTokens)
    IN IF host = <<>> THEN PyNone ELSE PyStr([i \in 1..Len(host) |-> lower(host[i])])

---------------------------------------------------------------------------
(* The values the public functions are called with *)

MaxHosts == 1

BoundedSeq(S, n) == UNION {[1..k -> S] : k \in 0..n}

ProxyTokens == {PyNone, PyStr(<<>>), PyStr(<<"tok">>), PyStr(<<"secret">>)}

\* a base URL with userinfo, port, upper case and trailing slashes; one
\* without "//" (no hostname); one urlparse refuses
ProxyBaseUrls ==
    { <<"https:", "/", "/", "user@", "FW.Test", ":8443", "/", "/">>,
      <<"fw.test">>,
      <<"https:", "/", "/", "[", "fw.test">> }

HostNames == {DEFAULT_API_HOST, <<"example.com">>}

HostLists == {PyNone} \cup {PyList(l) : l \in BoundedSeq(HostNames, MaxHosts)}

ExtraHostLists == {PyNone, PyList(<<<<"fw.test">>>>)}

\* what requests.Session.request is before this package touches it: the
\* library's own method, or a wrapper some other package installed
LibraryEntries == {"Session.request", "wrapped_request"}

---------------------------------------------------------------------------
(* _state *)

InitialState ==
    [ original_request |-> "None",
      proxy_base_url |-> PyNone,
      proxy_token |-> PyNone,
      active |-> FALSE,
      intercept_all |-> FALSE,
      intercepted_hosts |-> {},
      forwarder_host |-> PyNone ]

NoCall == [op |-> "none"]

\* the locals of _patched_request before it is called
HookIdle ==
    [pc |-> "idle", url |-> <<>>, original_request |-> "None",
     used |-> [f \in {} |-> PyNone], forward_url |-> <<>>,
     result |-> [intercepted |-> FALSE], overlapped |-> FALSE]

\* no call in progress
NoThreads ==
    [hook |-> HookIdle,
     writer |-> [todo |-> <<>>, cfg |-> InitialState, raised |-> FALSE],
     configs |-> {},
     disabled |-> FALSE]

Init ==
    /\ state = InitialState
    /\ Session_request \in LibraryEntries
    /\ before_patch = "None"
    /\ call = NoCall
    /\ threads = NoThreads

---------------------------------------------------------------------------
(* setup_proxy *)

\* a bug: only None is refused, the empty string is accepted
RejectsToken_onlyNone(proxy_token) == proxy_token.tag = "None"

\* `if not proxy_token: raise ValueError`
RejectsToken(proxy_token) == ~Truthy(proxy_token)

\* a bug: the default host is always part of the set
ResolveHosts_keepsDefault(hosts, intercept_all, extra_hosts) ==
    IF intercept_all THEN {}
    ELSE {DEFAULT_API_HOST}
         \cup (IF Truthy(hosts) THEN Range(hosts.val) ELSE {})
         \cup (IF Truthy(extra_hosts) THEN Range(extra_hosts.val) ELSE {})

\* the set of hosts to intercept
ResolveHosts(hosts, intercept_all, extra_hosts) ==
    IF intercept_all THEN {}
    ELSE (IF Truthy(hosts) THEN Range(hosts.val) ELSE {DEFAULT_API_HOST})
         \cup (IF Truthy(extra_hosts) THEN Range(extra_hosts.val) ELSE {})

\* the forwarder's own hostname: None when urlparse raises
ForwarderHost(base_url) ==
    IF urlparse_raises(base_url) THEN PyNone ELSE hostname(base_url)

\* the five configuration fields both branches write
Configure(st, proxy_token, base_url, hosts, intercept_all, extra_hosts) ==
    [st EXCEPT !.proxy_base_url = PyStr(base_url),
               !.proxy_token = proxy_token,
               !.intercept_all = intercept_all,
               !.intercepted_hosts = ResolveHosts(hosts, intercept_all, extra_hosts),
               !.forwarder_host = ForwarderHost(base_url)]

\* a bug: the hook is installed again over itself
Reconfigure_repatches(st, sess, cfg) ==
    [state |-> [cfg EXCEPT !.original_request = sess],
     Session_request |-> "_patched_request",
     patched |-> FALSE]

\* the branch taken when _state["active"] is already set: no re-patching
Reconfigure(st, sess, cfg) ==
    [state |-> cfg, Session_request |-> sess, patched |-> FALSE]

\* a bug: Session.request is replaced first, and the hook is saved as the original
Install_savesHook(st, sess, cfg) ==
    [state |-> [cfg EXCEPT !.original_request = "_patched_request", !.active = TRUE],
     Session_request |-> "_patched_request",
     patched |-> TRUE]

\* the branch taken when inactive: save the installed method, install the hook
Install(st, sess, cfg) ==
    [state |-> [cfg EXCEPT !.original_request = sess, !.active = TRUE],
     Session_request |-> "_patched_request",
     patched |-> TRUE]

\* a bug: the configuration is written before the token is looked at
SetupResult_configuresFirst(st, sess, proxy_token, proxy_base_url, hosts, intercept_all, extra_hosts) ==
    LET base_url == rstrip(proxy_base_url, "/")
        cfg == Configure(st, proxy_token, base_url, hosts, intercept_all, extra_hosts)
        r == IF st.active THEN Reconfigure(st, sess, cfg) ELSE Install(st, sess, cfg)
    IN IF RejectsToken(proxy_token)
       THEN [raised |-> "ValueError", state |-> [cfg EXCEPT !.proxy_token = st.proxy_token],
             Session_request |-> sess, patched |-> FALSE]
       ELSE [raised |-> "None", state |-> r.state, Session_request |-> r.Session_request,
             patched |-> r.patched]

SetupResult(st, sess, proxy_token, proxy_base_url, hosts, intercept_all, extra_hosts) ==
    IF RejectsToken(proxy_token)
    THEN [raised |-> "ValueError", state |-> st, Session_request |-> sess, patched |-> FALSE]
    ELSE LET base_url == rstrip(proxy_base_url, "/")
             cfg == Configure(st, proxy_token, base_url, hosts, intercept_all, extra_hosts)
             r == IF st.active THEN Reconfigure(st, sess, cfg) ELSE Install(st, sess, cfg)
         IN [raised |-> "None", state |-> r.state, Session_request |-> r.Session_request,
             patched |-> r.patched]

setup_proxy(proxy_token, proxy_base_url, hosts, intercept_all, extra_hosts) ==
    LET r == SetupResult(state, Session_request, proxy_token, proxy_base_url, hosts,
                         intercept_all, extra_hosts)
    IN /\ state' = r.state
       /\ Session_request' = r.Session_request
       /\ before_patch' = IF r.patched THEN Session_request ELSE before_patch
       /\ UNCHANGED threads
       /\ call' = IF r.raised = "None"
                  THEN [op |-> "setup_proxy", proxy_token |-> proxy_token,
                        proxy_base_url |-> proxy_base_url, hosts |-> hosts,
                        intercept_all |-> intercept_all, extra_hosts |-> extra_hosts,
                        raised |-> r.raised, was_active |-> state.active]
                  ELSE [op |-> "setup_proxy", proxy_token |-> proxy_token,
                        raised |-> r.raised, was_active |-> state.active]

Activate ==
    \E proxy_token \in ProxyTokens, proxy_base_url \in ProxyBaseUrls, hosts \in HostLists,
       intercept_all \in BOOLEAN, extra_hosts \in ExtraHostLists :
        setup_proxy(proxy_token, proxy_base_url, hosts, intercept_all, extra_hosts)

---------------------------------------------------------------------------
(* disable_proxy *)

\* a bug: the flag is cleared and the hook stays installed
DisableResult_keepsHook(st, sess) ==
    IF ~st.active
    THEN [state |-> st, Session_request |-> sess]
    ELSE [state |-> [st EXCEPT !.active = FALSE], Session_request |-> sess]

\* a bug: no test of the active flag, the saved original is installed anyway
DisableResult_unguarded(st, sess) ==
    [state |-> [st EXCEPT !.active = FALSE, !.original_request = "None"],
     Session_request |-> st.original_request]

\* a bug: the saved original is not cleared
DisableResult_keepsOriginal(st, sess) ==
    IF ~st.active
    THEN [state |-> st, Session_request |-> sess]
    ELSE [state |-> [st EXCEPT !.active = FALSE], Session_request |-> st.original_request]

DisableResult(st, sess) ==
    IF ~st.active
    THEN [state |-> st, Session_request |-> sess]
    ELSE [state |-> [st EXCEPT !.active = FALSE, !.original_request = "None"],
          Session_request |-> st.original_request]

disable_proxy ==
    LET r == DisableResult(state, Session_request)
    IN /\ state' = r.state
       /\ Session_request' = r.Session_request
       /\ call' = [op |-> "disable_proxy", was_active |-> state.active]
       /\ UNCHANGED <<before_patch, threads>>

---------------------------------------------------------------------------
(* Python dicts as functions, and the objects the hook builds.  An object *)
(* the hook writes to is [alias, val]: alias says whether it is the       *)
(* caller's own object (a write then shows in the caller's object).       *)

EmptyDict == [k \in {} |-> PyNone]

SetItem(d, k, v) == [x \in (DOMAIN d) \cup {k} |-> IF x = k THEN v ELSE d[x]]

\* dict(x), list(x): a new object holding the same entries
Copy(v) == [alias |-> FALSE, val |-> v]

\* {}, {"url": url}: a new object
Fresh(v) == [alias |-> FALSE, val |-> v]

\* what the caller's object holds after the hook wrote to `obj`
CallerObject(raw, obj) == IF obj.alias THEN [raw EXCEPT !.val = obj.val] ELSE raw

---------------------------------------------------------------------------
(* urllib.parse.parse_qs(text): keep_blank_values and strict_parsing off *)

RECURSIVE Split(_, _)
Split(s, sep) ==
    IF sep \notin Range(s) THEN <<s>>
    ELSE <<UpTo(s, {sep})>> \o Split(After(s, {sep}), sep)

\* one name=value piece is kept when it has an "=" and a non-empty value
KeepsPiece(piece) == "=" \in Range(piece) /\ After(piece, {"="}) # <<>>

RECURSIVE PairsOf(_)
PairsOf(pieces) ==
    IF pieces = <<>> THEN <<>>
    ELSE (IF KeepsPiece(Head(pieces))
          THEN << <<UpTo(Head(pieces), {"="}), After(Head(pieces), {"="})>> >>
          ELSE <<>>) \o PairsOf(Tail(pieces))

parse_qsl(text) == PairsOf(Split(text, "&"))

RECURSIVE ValuesOf(_, _)
ValuesOf(pairs, name) ==
    IF pairs = <<>> THEN <<>>
    ELSE (IF Head(pairs)[1] = name THEN <<Head(pairs)[2]>> ELSE <<>>)
         \o ValuesOf(Tail(pairs), name)

parse_qs(text) ==
    LET pairs == parse_qsl(text)
    IN [name \in {pairs[i][1] : i \in 1..Len(pairs)} |-> ValuesOf(pairs, name)]

\* {k: v[0] if len(v) == 1 else v for k, v in decoded.items()}
FoldValues(decoded) ==
    [k \in DOMAIN decoded |->
        IF Len(decoded[k]) = 1 THEN PyStr(decoded[k][1]) ELSE PyList(decoded[k])]

---------------------------------------------------------------------------
(* _patched_request *)

\* kwargs.get(key)
Get(kwargs, key) == IF kwargs[key].tag = "absent" THEN PyNone ELSE kwargs[key]

\* original_request(self, method, url, **kwargs); calling None raises
\* TypeError, and a hook saved as its own original never returns
Delegate(original_request, method, url, kwargs) ==
    [ raised |-> CASE original_request = "None" -> "TypeError"
                   [] original_request = "_patched_request" -> "RecursionError"
                   [] OTHER -> "None",
      via |-> original_request, method |-> method, url |-> url, kwargs |-> kwargs ]

\* a bug: the host-based branch repeats the loop-guard comparison
ShouldIntercept_guardOnly(st, host) ==
    IF st.intercept_all
    THEN host # st.forwarder_host
    ELSE host # st.forwarder_host

\* a bug: intercept-all without the loop guard
ShouldIntercept_noGuard(st, host) ==
    IF st.intercept_all
    THEN TRUE
    ELSE host.tag = "str" /\ host.val \in st.intercepted_hosts

\* should_intercept
ShouldIntercept(st, host) ==
    IF st.intercept_all
    THEN host # st.forwarder_host
    ELSE host.tag = "str" /\ host.val \in st.intercepted_hosts

ForwardUrl(st) == st.proxy_base_url.val \o FORWARD_ENDPOINT

\* a bug: the caller's dict is written to, not a copy of it
PrepareHeaders_inPlace(raw_headers, proxy_token) ==
    LET headers == IF Truthy(raw_headers)
                   THEN [alias |-> TRUE, val |-> raw_headers.val]
                   ELSE Fresh(EmptyDict)
        auth == SetItem(headers.val, "Authorization", <<"Bearer ">> \o proxy_token.val)
    IN [headers EXCEPT !.val = SetItem(auth, "X-Api-Token", proxy_token.val)]

\* the headers object the hook sends
PrepareHeaders(raw_headers, proxy_token) ==
    LET headers == IF Truthy(raw_headers) THEN Copy(raw_headers.val) ELSE Fresh(EmptyDict)
        auth == SetItem(headers.val, "Authorization", <<"Bearer ">> \o proxy_token.val)
    IN [headers EXCEPT !.val = SetItem(auth, "X-Api-Token", proxy_token.val)]

\* the params object the hook sends, with its type
PrepareParams(raw_params, url) ==
    CASE raw_params.tag = "None" ->
            [tag |-> "dict", obj |-> Fresh(SetItem(EmptyDict, <<"url">>, PyStr(url)))]
      [] raw_params.tag = "dict" ->
            [tag |-> "dict",
             obj |-> [Copy(raw_params.val) EXCEPT !.val = SetItem(@, <<"url">>, PyStr(url))]]
      [] raw_params.tag = "list" ->
            [tag |-> "list",
             obj |-> [Copy(raw_params.val) EXCEPT !.val = Append(@, <<<<"url">>, PyStr(url)>>)]]
      [] raw_params.tag = "bytes" ->
            [tag |-> "dict",
             obj |-> Fresh(SetItem(FoldValues(parse_qs(raw_params.val)), <<"url">>, PyStr(url)))]
      [] OTHER ->
            [tag |-> "dict", obj |-> Fresh(SetItem(EmptyDict, <<"url">>, PyStr(url)))]

\* a bug: the outgoing options are built anew and the others are lost
OutgoingKwargs_rebuilt(kwargs, headers, params) ==
    [headers |-> PyDict(headers.val),
     params |-> [tag |-> params.tag, val |-> params.obj.val],
     data |-> Absent,
     timeout |-> Absent]

\* kwargs["headers"] = headers; kwargs["params"] = params: every other key stays
OutgoingKwargs(kwargs, headers, params) ==
    [kwargs EXCEPT !.headers = PyDict(headers.val),
                   !.params = [tag |-> params.tag, val |-> params.obj.val]]

\* a bug: the auth headers are set before the decision, so a request that is
\* passed through carries them too
HookPassthrough_withToken(st, method, url, kwargs) ==
    LET headers == PrepareHeaders(Get(kwargs, "headers"), st.proxy_token)
    IN [sent |-> Delegate(st.original_request, method, url,
                          [kwargs EXCEPT !.headers = PyDict(headers.val)]),
        intercepted |-> FALSE,
        caller_headers |-> kwargs.headers,
        caller_params |-> kwargs.params]

\* `return original_request(self, method, url, **kwargs)`: the request as called
HookPassthrough(st, method, url, kwargs) ==
    [sent |-> Delegate(st.original_request, method, url, kwargs),
     intercepted |-> FALSE,
     caller_headers |-> kwargs.headers,
     caller_params |-> kwargs.params]

\* the intercept branch: forward URL, auth headers, url param
HookRewrite(st, method, url, kwargs) ==
    LET raw_headers == Get(kwargs, "headers")
        headers == PrepareHeaders(raw_headers, st.proxy_token)
        raw_params == Get(kwargs, "params")
        params == PrepareParams(raw_params, url)
        out == OutgoingKwargs(kwargs, headers, params)
    IN [sent |-> Delegate(st.original_request, method, ForwardUrl(st), out),
        intercepted |-> TRUE,
        caller_headers |-> CallerObject(kwargs.headers, headers),
        caller_params |-> CallerObject(kwargs.params, params.obj)]

\* a bug: urlparse is called outside a try, and its ValueError reaches the caller
patched_request_noTry(st, method, url, kwargs) ==
    IF urlparse_raises(url)
    THEN [sent |-> [raised |-> "ValueError", via |-> "None", method |-> method,
                    url |-> url, kwargs |-> kwargs],
          intercepted |-> FALSE,
          caller_headers |-> kwargs.headers,
          caller_params |-> kwargs.params]
    ELSE IF ~ShouldIntercept(st, hostname(url)) THEN HookPassthrough(st, method, url, kwargs)
    ELSE HookRewrite(st, method, url, kwargs)

\* the whole hook: what reaches original_request, and the caller's objects after
patched_request(st, method, url, kwargs) ==
    IF urlparse_raises(url) THEN HookPassthrough(st, method, url, kwargs)
    ELSE IF ~ShouldIntercept(st, hostname(url)) THEN HookPassthrough(st, method, url, kwargs)
    ELSE HookRewrite(st, method, url, kwargs)

\* session.request(method, url, **kwargs) as the caller sees it: whatever is
\* installed as requests.Session.request runs
SessionRequest(sess, st, method, url, kwargs) ==
    IF sess = "_patched_request"
    THEN patched_request(st, method, url, kwargs)
    ELSE [sent |-> Delegate(sess, method, url, kwargs),
          intercepted |-> FALSE,
          caller_headers |-> kwargs.headers,
          caller_params |-> kwargs.params]

DoRequest(req) ==
    LET r == SessionRequest(Session_request, state, req.method, req.url, req.kwargs)
    IN /\ call' = [op |-> "request", method |-> req.method, url |-> req.url,
                   kwargs |-> req.kwargs, sent |-> r.sent, intercepted |-> r.intercepted,
                   caller_headers |-> r.caller_headers, caller_params |-> r.caller_params]
       /\ UNCHANGED <<state, Session_request, before_patch, threads>>

---------------------------------------------------------------------------
(* The requests callers make *)

MaxParams == 2

RequestUrls ==
    { <<"https:", "/", "/", "api.telegram.org", "/", "getMe">>,
      <<"https:", "/", "/", "API.Telegram.org", ":8443", "/", "getMe">>,
      <<"https:", "/", "/", "example.com", "/", "getMe", "?", "offset=1">>,
      <<"https:", "/", "/", "user@", "fw.test", "/", "health">>,
      <<"/", "getMe">>,
      <<"https:", "/", "/", "example.com", "]", "/">> }

Methods == {"GET", "post"}

HeaderDicts ==
    { EmptyDict,
      SetItem(EmptyDict, "X-Custom", <<"value123">>),
      SetItem(SetItem(EmptyDict, "X-Custom", <<"value123">>), "Authorization", <<"Basic ", "me">>) }

HeaderArgs == {Absent} \cup {PyDict(d) : d \in HeaderDicts}

ParamKeys == {<<"offset">>, <<"url">>}
ParamPairs == {<<k, PyStr(<<"100">>)>> : k \in ParamKeys}
ParamDicts ==
    UNION {[K -> {PyStr(<<"100">>)}] : K \in {K \in SUBSET ParamKeys : Cardinality(K) <= MaxParams}}

\* name=value pieces of a raw query string: full, blank value, bare name
QueryPieces ==
    { <<"offset", "=", "100">>, <<"offset", "=">>, <<"offset">>, <<"url", "=", "100">> }

RECURSIVE Join(_, _)
Join(pieces, sep) ==
    IF pieces = <<>> THEN <<>>
    ELSE IF Len(pieces) = 1 THEN Head(pieces)
    ELSE Head(pieces) \o <<sep>> \o Join(Tail(pieces), sep)

QueryStrings == {Join(ps, "&") : ps \in BoundedSeq(QueryPieces, MaxParams)}

ParamArgs ==
    {Absent, PyNone}
    \cup {PyDict(d) : d \in ParamDicts}
    \cup {PyList(l) : l \in BoundedSeq(ParamPairs, MaxParams)}
    \cup {PyBytes(q) : q \in QueryStrings}
    \cup {PyStr(q) : q \in QueryStrings}

\* the method with the body and transport options of the call
MethodAndOptions ==
    { [method |-> "GET", data |-> Absent, timeout |-> Absent],
      [method |-> "post", data |-> PyBytes(<<"body">>), timeout |-> [tag |-> "int", val |-> 20]] }

Kwargs(headers, params, other) ==
    [headers |-> headers, params |-> params, data |-> other.data, timeout |-> other.timeout]

\* every combination, for the hook taken on its own
AllRequests ==
    { [method |-> o.method, url |-> u, kwargs |-> Kwargs(h, p, o)] :
        u \in RequestUrls, h \in HeaderArgs, p \in ParamArgs, o \in MethodAndOptions }

\* the requests made between activations and deactivations
PlainKwargs == Kwargs(Absent, Absent, [data |-> Absent, timeout |-> Absent])
RichKwargs ==
    Kwargs(PyDict(SetItem(EmptyDict, "X-Custom", <<"value123">>)),
           PyDict(SetItem(EmptyDict, <<"offset">>, PyStr(<<"100">>))),
           [data |-> PyBytes(<<"body">>), timeout |-> [tag |-> "int", val |-> 20]])

SomeRequests ==
    { [method |-> m, url |-> u, kwargs |-> k] :
        m \in Methods, u \in RequestUrls, k \in {PlainKwargs, RichKwargs} }

Request == \E req \in SomeRequests : DoRequest(req)

---------------------------------------------------------------------------
(* get_intercepted_hosts, and a caller that changes the set it was given *)

\* set(_state.get("intercepted_hosts", set()))
InterceptedHostsSnapshot(st) == Copy(st.intercepted_hosts)

get_intercepted_hosts ==
    /\ call' = [op |-> "get_intercepted_hosts", returned |-> InterceptedHostsSnapshot(state)]
    /\ UNCHANGED <<state, Session_request, before_patch, threads>>

\* returned.add(host)
CallerAddsHost ==
    /\ call.op = "get_intercepted_hosts"
    /\ \E host \in HostNames \ call.returned.val :
        /\ call' = [op |-> "returned.add", host |-> host,
                    returned |-> [call.returned EXCEPT !.val = @ \cup {host}]]
        /\ state' = IF call.returned.alias
                    THEN [state EXCEPT !.intercepted_hosts = @ \cup {host}]
                    ELSE state
    /\ UNCHANGED <<Session_request, before_patch, threads>>

---------------------------------------------------------------------------
(* The hook on its own: one request, made in a state one setup_proxy call *)
(* leaves behind.                                                          *)

InitRequest ==
    \E proxy_token \in ProxyTokens, proxy_base_url \in ProxyBaseUrls,
       hosts \in HostLists, intercept_all \in BOOLEAN, extra_hosts \in ExtraHostLists,
       req \in AllRequests :
        LET entry == "Session.request"
            r == SetupResult(InitialState, entry, proxy_token, proxy_base_url, hosts,
                             intercept_all, extra_hosts)
        IN /\ state = r.state
           /\ Session_request = r.Session_request
           /\ before_patch = (IF r.patched THEN entry ELSE "None")
           /\ call = [op |-> "pending", req |-> req]
           /\ threads = NoThreads

PendingRequest == call.op = "pending" /\ DoRequest(call.req)

SpecRequest == InitRequest /\ [][PendingRequest]_vars

---------------------------------------------------------------------------
Next == Activate \/ disable_proxy \/ Request \/ get_intercepted_hosts \/ CallerAddsHost

Spec == Init /\ [][Next]_vars

---------------------------------------------------------------------------
(* A request in one thread while setup_proxy / disable_proxy run in       *)
(* another.  Nothing in the module takes a lock, so every read and every  *)
(* write of _state and of Session.request is a step of its own, taken in  *)
(* the order of the source lines.                                          *)

\* the assignments of the already-active branch, in order
ReconfigureWrites_skipsToken ==
    <<"proxy_base_url", "intercept_all", "intercepted_hosts", "forwarder_host">>

ReconfigureWrites ==
    <<"proxy_base_url", "proxy_token", "intercept_all", "intercepted_hosts", "forwarder_host">>

\* the assignments of the install branch, in order
InstallWrites ==
    <<"proxy_base_url", "proxy_token", "intercept_all", "intercepted_hosts", "forwarder_host",
      "save_original", "patch", "activate">>

\* the assignments of disable_proxy, in order
DisableWrites == <<"restore", "deactivate", "clear_original">>

\* one assignment: what it makes of _state and Session.request
ApplyWrite(st, sess, w, cfg) ==
    CASE w = "save_original" ->
            [state |-> [st EXCEPT !.original_request = sess], Session_request |-> sess]
      [] w = "patch" ->
            [state |-> st, Session_request |-> "_patched_request"]
      [] w = "activate" ->
            [state |-> [st EXCEPT !.active = TRUE], Session_request |-> sess]
      [] w = "restore" ->
            [state |-> st, Session_request |-> st.original_request]
      [] w = "deactivate" ->
            [state |-> [st EXCEPT !.active = FALSE], Session_request |-> sess]
      [] w = "clear_original" ->
            [state |-> [st EXCEPT !.original_request = "None"], Session_request |-> sess]
      [] OTHER ->
            [state |-> [st EXCEPT ![w] = cfg[w]], Session_request |-> sess]

\* the five configuration fields of a _state value
ConfigOf(st) ==
    [proxy_base_url |-> st.proxy_base_url, proxy_token |-> st.proxy_token,
     intercept_all |-> st.intercept_all, intercepted_hosts |-> st.intercepted_hosts,
     forwarder_host |-> st.forwarder_host]

\* the setup_proxy calls made while requests run
ThreadSetups ==
    { [proxy_token |-> PyStr(<<"tok">>),
       proxy_base_url |-> <<"https:", "/", "/", "user@", "FW.Test", ":8443", "/", "/">>,
       hosts |-> PyNone, intercept_all |-> FALSE, extra_hosts |-> PyNone],
      [proxy_token |-> PyStr(<<"secret">>),
       proxy_base_url |-> <<"fw.test">>,
       hosts |-> PyList(<< <<"example.com">> >>), intercept_all |-> FALSE,
       extra_hosts |-> PyNone],
      [proxy_token |-> PyStr(<<"secret">>),
       proxy_base_url |-> <<"https:", "/", "/", "user@", "FW.Test", ":8443", "/", "/">>,
       hosts |-> PyNone, intercept_all |-> TRUE, extra_hosts |-> PyNone],
      [proxy_token |-> PyStr(<<>>),
       proxy_base_url |-> <<"fw.test">>,
       hosts |-> PyNone, intercept_all |-> FALSE, extra_hosts |-> PyNone] }

\* the requests made while setup_proxy / disable_proxy run
ThreadUrls ==
    { <<"https:", "/", "/", "api.telegram.org", "/", "getMe">>,
      <<"https:", "/", "/", "example.com", "/", "getMe", "?", "offset=1">>,
      <<"https:", "/", "/", "user@", "fw.test", "/", "health">>,
      <<"https:", "/", "/", "example.com", "]", "/">> }

\* _patched_request has been looked up by a caller and has not returned
HookRunning(hook) == hook.pc \notin {"idle", "done"}

\* history: the request has been in progress together with a call that writes
Mark(t) ==
    [t EXCEPT !.hook.overlapped = @ \/ (HookRunning(t.hook) /\ t.writer.todo # <<>>)]

\* the caller looks up Session.request and calls what it finds
HookCall(url) ==
    /\ threads.hook.pc = "idle"
    /\ threads' = Mark([threads EXCEPT !.hook =
            IF Session_request = "_patched_request"
            THEN [HookIdle EXCEPT !.pc = "290", !.url = url]
            ELSE [HookIdle EXCEPT !.pc = "done", !.url = url,
                    !.result = [sent |-> Delegate(Session_request, "GET", url, PlainKwargs),
                                intercepted |-> FALSE, hooked |-> FALSE]]])
    /\ UNCHANGED <<state, Session_request, before_patch, call>>

\* line 290: original_request = _state["original_request"]
HookReadOriginal ==
    /\ threads.hook.pc = "290"
    /\ threads' = Mark([threads EXCEPT !.hook.pc = "293",
                                       !.hook.original_request = state.original_request])
    /\ UNCHANGED <<state, Session_request, before_patch, call>>

\* what the hook returns when it passes the request through
ThreadPassthrough(hook) ==
    [sent |-> HookPassthrough([original_request |-> hook.original_request],
                              "GET", hook.url, PlainKwargs).sent,
     intercepted |-> FALSE, hooked |-> TRUE]

\* lines 293-303: parse the URL, then read _state["intercept_all"]
HookReadMode ==
    /\ threads.hook.pc = "293"
    /\ LET hook == threads.hook
       IN threads' = Mark([threads EXCEPT !.hook =
            IF urlparse_raises(hook.url)
            THEN [hook EXCEPT !.pc = "done", !.result = ThreadPassthrough(hook)]
            ELSE [hook EXCEPT !.pc = "305",
                              !.used = SetItem(hook.used, "intercept_all",
                                               state.intercept_all)]])
    /\ UNCHANGED <<state, Session_request, before_patch, call>>

\* lines 305-310: read forwarder_host or intercepted_hosts and decide
HookDecide ==
    /\ threads.hook.pc = "305"
    /\ LET hook == threads.hook
           field == IF hook.used["intercept_all"] THEN "forwarder_host"
                    ELSE "intercepted_hosts"
           seen == [intercept_all |-> hook.used["intercept_all"],
                    forwarder_host |-> state.forwarder_host,
                    intercepted_hosts |-> state.intercepted_hosts]
           used == SetItem(hook.used, field, state[field])
       IN threads' = Mark([threads EXCEPT !.hook =
            IF ShouldIntercept(seen, hostname(hook.url))
            THEN [hook EXCEPT !.pc = "316", !.used = used]
            ELSE [hook EXCEPT !.pc = "done", !.used = used,
                              !.result = ThreadPassthrough(hook)]])
    /\ UNCHANGED <<state, Session_request, before_patch, call>>

\* line 316: forward_url = _state["proxy_base_url"] + FORWARD_ENDPOINT
HookReadBaseUrl ==
    /\ threads.hook.pc = "316"
    /\ LET hook == threads.hook
       IN threads' = Mark([threads EXCEPT !.hook =
            [hook EXCEPT !.pc = "317",
                         !.forward_url = ForwardUrl([proxy_base_url |-> state.proxy_base_url]),
                         !.used = SetItem(hook.used, "proxy_base_url",
                                          state.proxy_base_url)]])
    /\ UNCHANGED <<state, Session_request, before_patch, call>>

\* lines 317-359: read _state["proxy_token"], build headers and params, delegate
HookReadTokenAndSend ==
    /\ threads.hook.pc = "317"
    /\ LET hook == threads.hook
           seen == [original_request |-> hook.original_request,
                    proxy_base_url |-> hook.used["proxy_base_url"],
                    proxy_token |-> state.proxy_token]
       IN threads' = Mark([threads EXCEPT !.hook =
            [hook EXCEPT !.pc = "done",
                      !.used = SetItem(hook.used, "proxy_token", state.proxy_token),
                      !.result = [sent |-> HookRewrite(seen, "GET", hook.url, PlainKwargs).sent,
                                  intercepted |-> TRUE, hooked |-> TRUE]]])
    /\ UNCHANGED <<state, Session_request, before_patch, call>>

\* the request returns to its caller
HookReturn ==
    /\ threads.hook.pc = "done"
    /\ threads' = [threads EXCEPT !.hook = HookIdle]
    /\ UNCHANGED <<state, Session_request, before_patch, call>>

\* lines 170-196 and 207: setup_proxy up to the first assignment to _state
WriterSetup(a) ==
    /\ threads.writer.todo = <<>>
    /\ threads' =
         IF RejectsToken(a.proxy_token)
         THEN [threads EXCEPT !.writer.raised = TRUE]
         ELSE LET cfg == Configure(state, a.proxy_token, rstrip(a.proxy_base_url, "/"),
                                   a.hosts, a.intercept_all, a.extra_hosts)
              IN Mark([threads EXCEPT
                        !.writer = [todo |-> IF state.active THEN ReconfigureWrites
                                             ELSE InstallWrites,
                                    cfg |-> cfg, raised |-> FALSE],
                        !.configs = @ \cup {ConfigOf(cfg)}])
    /\ UNCHANGED <<state, Session_request, before_patch, call>>

\* lines 236-238: disable_proxy up to its first assignment
WriterDisable ==
    /\ threads.writer.todo = <<>>
    /\ state.active
    /\ threads' = Mark([threads EXCEPT !.writer.todo = DisableWrites,
                                       !.writer.raised = FALSE,
                                       !.disabled = TRUE])
    /\ UNCHANGED <<state, Session_request, before_patch, call>>

\* the next assignment of the call in progress
WriterStep ==
    /\ threads.writer.todo # <<>>
    /\ LET w == Head(threads.writer.todo)
           r == ApplyWrite(state, Session_request, w, threads.writer.cfg)
       IN /\ state' = r.state
          /\ Session_request' = r.Session_request
          /\ before_patch' = IF w = "save_original" THEN Session_request ELSE before_patch
    /\ threads' = [threads EXCEPT !.writer.todo = Tail(@)]
    /\ UNCHANGED call

InitThreads ==
    /\ state = InitialState
    /\ Session_request = "Session.request"
    /\ before_patch = "None"
    /\ call = NoCall
    /\ threads = NoThreads

NextThreads ==
    \/ \E url \in ThreadUrls : HookCall(url)
    \/ HookReadOriginal
    \/ HookReadMode
    \/ HookDecide
    \/ HookReadBaseUrl
    \/ HookReadTokenAndSend
    \/ HookReturn
    \/ \E a \in ThreadSetups : WriterSetup(a)
    \/ WriterDisable
    \/ WriterStep

SpecThreads == InitThreads /\ [][NextThreads]_vars

---------------------------------------------------------------------------
(* Properties *)

\* the request reached the transport exactly as the caller made it
SentAsCalled ==
    /\ call.sent.raised = "None"
    /\ call.sent.method = call.method
    /\ call.sent.url = call.url
    /\ call.sent.kwargs = call.kwargs

\* the request was sent to <base URL>/forward
SentToForwarder ==
    /\ call.sent.raised = "None"
    /\ call.sent.url = state.proxy_base_url.val \o <<"/", "forward">>

\* the params hold a `url` entry whose value is u
HasUrlParam(params, u) ==
    CASE params.tag = "dict" ->
            <<"url">> \in DOMAIN params.val /\ params.val[<<"url">>] = PyStr(u)
      [] params.tag = "list" ->
            \E i \in 1..Len(params.val) : params.val[i] = <<<<"url">>, PyStr(u)>>
      [] OTHER -> FALSE

\* the URL of the request parses and its hostname is in S
RequestHostIn(S) ==
    /\ ~urlparse_raises(call.url)
    /\ hostname(call.url).tag = "str"
    /\ hostname(call.url).val \in S

\* C1: in host-based mode a request is rewritten iff its hostname is in
\* intercepted_hosts: a member goes to <base>/forward with url = the original
\* URL among its params, a non-member is delegated exactly as called.
C1_HostBasedRouting ==
    (call.op = "request" /\ state.active /\ ~state.intercept_all) =>
        IF RequestHostIn(state.intercepted_hosts)
        THEN SentToForwarder /\ HasUrlParam(call.sent.kwargs.params, call.url)
        ELSE SentAsCalled

\* a request whose host is written in upper case, with its port, was rewritten
\* in host-based mode and carried the caller's own list of params
C1_Witness ==
    /\ call.op = "request" /\ state.active /\ ~state.intercept_all
    /\ call.url = <<"https:", "/", "/", "API.Telegram.org", ":8443", "/", "getMe">>
    /\ call.kwargs.params.tag = "list" /\ Len(call.kwargs.params.val) = 2
    /\ SentToForwarder

C3_EmptyTokenRejected ==
    [][(call'.op = "setup_proxy" /\ ~Truthy(call'.proxy_token)) =>
            /\ call'.raised = "ValueError"
            /\ state' = state
            /\ Session_request' = Session_request]_vars

\* an empty token was refused while a configuration was active
C3_Witness ==
    /\ call.op = "setup_proxy" /\ call.raised = "ValueError"
    /\ call.proxy_token = PyStr(<<>>)
    /\ call.was_active /\ state.active
    /\ state.proxy_token = PyStr(<<"secret">>)

\* C4: once deactivated after an activation, Session.request is what it was
\* before the hook was installed, and every request reaches it as called.
C4_DeactivateRestores ==
    (~state.active /\ before_patch # "None") =>
        /\ Session_request = before_patch
        /\ state.original_request = "None"
        /\ call.op = "request" =>
            /\ SentAsCalled
            /\ call.sent.via = before_patch
            /\ call.caller_headers = call.kwargs.headers
            /\ call.caller_params = call.kwargs.params

\* after a deactivation, a request to a host that is still in the stored host
\* set went through the wrapper that was installed before activation
C4_Witness ==
    /\ ~state.active /\ before_patch = "wrapped_request"
    /\ call.op = "request"
    /\ RequestHostIn(state.intercepted_hosts)
    /\ call.kwargs = RichKwargs
    /\ call.sent.via = "wrapped_request"

\* C5: an intercepted request carries the caller's headers plus
\* Authorization = "Bearer " + token and X-Api-Token = token, the other
\* headers keep their values, and the caller's dict is as it was.
C5_AuthHeaders ==
    (call.op = "request" /\ call.intercepted) =>
        LET out == call.sent.kwargs.headers
            raw == call.kwargs.headers
            mine == IF raw.tag = "dict" THEN DOMAIN raw.val ELSE {}
        IN /\ out.tag = "dict"
           /\ DOMAIN out.val = mine \cup {"Authorization", "X-Api-Token"}
           /\ out.val["Authorization"] = <<"Bearer ">> \o state.proxy_token.val
           /\ out.val["X-Api-Token"] = state.proxy_token.val
           /\ \A k \in mine \ {"Authorization", "X-Api-Token"} : out.val[k] = raw.val[k]
           /\ call.caller_headers = raw

\* an intercepted request whose caller had set Authorization and X-Custom
C5_Witness ==
    /\ call.op = "request" /\ call.intercepted
    /\ call.kwargs.headers.tag = "dict"
    /\ DOMAIN call.kwargs.headers.val = {"Authorization", "X-Custom"}
    /\ call.sent.kwargs.headers.val["Authorization"] = <<"Bearer ", "secret">>

\* the name/value pairs a caller supplies, by the shape of params; a raw
\* query string supplies one pair per &-separated piece of the form name=value
\* (the value may be blank)
SuppliedParams(raw) ==
    CASE raw.tag = "dict" -> {<<k, raw.val[k]>> : k \in DOMAIN raw.val}
      [] raw.tag = "list" -> Range(raw.val)
      [] raw.tag \in {"bytes", "str"} ->
            {<<UpTo(piece, {"="}), PyStr(After(piece, {"="}))>> :
                piece \in {q \in Range(Split(raw.val, "&")) : "=" \in Range(q)}}
      [] OTHER -> {}

\* the name/value pairs the outgoing params hold
OutgoingParams(params) ==
    CASE params.tag = "dict" ->
            UNION {IF params.val[k].tag = "list"
                   THEN {<<k, PyStr(v)>> : v \in Range(params.val[k].val)}
                   ELSE {<<k, params.val[k]>>} : k \in DOMAIN params.val}
      [] params.tag = "list" -> Range(params.val)
      [] OTHER -> {}

\* C6: an intercepted request carries url = the original URL and every other
\* param the caller supplied, whatever the shape of params, and the caller's
\* own params object is as it was.
C6_ParamsPreserved ==
    (call.op = "request" /\ call.intercepted) =>
        /\ HasUrlParam(call.sent.kwargs.params, call.url)
        /\ \A pair \in SuppliedParams(call.kwargs.params) :
              pair[1] # <<"url">> => pair \in OutgoingParams(call.sent.kwargs.params)
        /\ call.caller_params = call.kwargs.params

\* C7: an intercepted request keeps the caller's method, body, timeout and
\* every option other than headers and params.
C7_OtherOptionsUntouched ==
    (call.op = "request" /\ call.intercepted) =>
        /\ call.sent.method = call.method
        /\ \A key \in (DOMAIN call.kwargs) \ {"headers", "params"} :
              call.sent.kwargs[key] = call.kwargs[key]
        /\ DOMAIN call.sent.kwargs = DOMAIN call.kwargs

\* an intercepted post with a body and a timeout
C7_Witness ==
    /\ call.op = "request" /\ call.intercepted
    /\ call.method = "post"
    /\ call.kwargs.data = PyBytes(<<"body">>)
    /\ call.kwargs.timeout.tag = "int"
    /\ call.sent.raised = "None"

\* C8: setup_proxy with a truthy token while active replaces the five
\* configuration fields with what the new call gives, stays active, and
\* leaves Session.request and the saved original as they were.
C8_ReactivationInPlace ==
    [][(state.active /\ call'.op = "setup_proxy" /\ Truthy(call'.proxy_token)) =>
            LET base_url == rstrip(call'.proxy_base_url, "/")
            IN /\ state'.proxy_token = call'.proxy_token
               /\ state'.proxy_base_url = PyStr(base_url)
               /\ state'.intercept_all = call'.intercept_all
               /\ state'.intercepted_hosts =
                     ResolveHosts(call'.hosts, call'.intercept_all, call'.extra_hosts)
               /\ state'.forwarder_host = ForwarderHost(base_url)
               /\ state'.active
               /\ Session_request' = Session_request
               /\ Session_request' = "_patched_request"
               /\ state'.original_request = state.original_request
               /\ state'.original_request # "_patched_request"]_vars

\* a second activation changed the token and the mode of an active proxy
C8_Witness ==
    /\ call.op = "setup_proxy" /\ call.was_active /\ call.raised = "None"
    /\ state.active
    /\ state.proxy_token = PyStr(<<"secret">>)
    /\ state.intercept_all
    /\ state.original_request = "wrapped_request"

\* C9: get_intercepted_hosts returns the empty set whenever intercept_all is
\* set and whenever the proxy is inactive, and what it returns is a copy.
C9_HostsEmptyWhenInactive ==
    /\ (call.op = "get_intercepted_hosts" /\ (state.intercept_all \/ ~state.active)) =>
            call.returned.val = {}
    /\ call.op = "returned.add" => call.host \notin state.intercepted_hosts

\* C10: while active, the stored token is a non-empty string.
C10_TokenNonEmptyWhileActive ==
    state.active => (state.proxy_token.tag = "str" /\ state.proxy_token.val # <<>>)

\* a None token was refused while active, and the proxy is still active
C10_Witness ==
    /\ state.active
    /\ call.op = "setup_proxy" /\ call.raised = "ValueError"
    /\ call.proxy_token = PyNone

\* C11: disable_proxy while inactive changes nothing: not the flag, not
\* Session.request, not the saved original, not a configuration field.
C11_DisableWhenInactiveNoOp ==
    [][(~state.active /\ call'.op = "disable_proxy") =>
            /\ state' = state
            /\ ~state'.active
            /\ Session_request' = Session_request]_vars

\* disable_proxy was called on a proxy that an earlier call had deactivated
C11_Witness ==
    /\ call.op = "disable_proxy" /\ ~call.was_active
    /\ ~state.active
    /\ state.proxy_token = PyStr(<<"tok">>)
    /\ Session_request = "wrapped_request"

\* C12: after a successful setup_proxy the stored host set is empty under
\* intercept_all; otherwise the given hosts when the list is non-empty, the
\* default host alone when it is not, joined with extra_hosts when given.
C12_ResolvedHosts ==
    (call.op = "setup_proxy" /\ call.raised = "None") =>
        LET given == IF call.hosts.tag = "list" THEN Range(call.hosts.val) ELSE {}
            extra == IF call.extra_hosts.tag = "list" THEN Range(call.extra_hosts.val) ELSE {}
        IN state.intercepted_hosts =
              IF call.intercept_all THEN {}
              ELSE (IF given # {} THEN given ELSE {<<"api.telegram.org">>}) \cup extra

\* a hosts list without the default host, with extra_hosts: the default is not stored
C12_Witness ==
    /\ call.op = "setup_proxy" /\ call.raised = "None"
    /\ call.hosts = PyList(<<<<"example.com">>>>)
    /\ call.extra_hosts.tag = "list"
    /\ state.intercepted_hosts = {<<"example.com">>, <<"fw.test">>}

\* C13: the saved original is never the hook, and every request is handed
\* once to what was installed before the hook, without raising.
C13_DelegatesToOriginal ==
    /\ state.original_request # "_patched_request"
    /\ call.op = "request" =>
          /\ call.sent.raised = "None"
          /\ call.sent.via \in LibraryEntries
          /\ state.active => call.sent.via = state.original_request

\* the forwarder's own host is in intercepted_hosts and a request to it was
\* rewritten once, after a re-activation
C13_Witness ==
    /\ call.op = "request" /\ call.intercepted
    /\ ~state.intercept_all
    /\ state.forwarder_host = PyStr(<<"fw.test">>)
    /\ <<"fw.test">> \in state.intercepted_hosts
    /\ hostname(call.url) = state.forwarder_host
    /\ call.sent.via = "wrapped_request"

\* the values a request read from _state are all those of one setup_proxy call
UsedOneConfig ==
    \E c \in threads.configs :
        \A f \in DOMAIN threads.hook.used : threads.hook.used[f] = c[f]

\* C14 as stated: a request running while setup_proxy re-activates (no
\* disable_proxy anywhere) reads all its configuration from one setup_proxy
\* call, the old one or the new one.
C14_ReactivationAtomic ==
    (threads.hook.pc = "done" /\ threads.hook.result.hooked /\ ~threads.disabled) =>
        UsedOneConfig

\* C14 amended: every value a request reads is one that some setup_proxy call
\* wrote, and a request that was not in progress together with a
\* setup_proxy or disable_proxy call reads all of them from one call.
C14_OneConfigWithoutOverlap ==
    (threads.hook.pc = "done" /\ threads.hook.result.hooked) =>
        /\ \A f \in DOMAIN threads.hook.used :
              \E c \in threads.configs : threads.hook.used[f] = c[f]
        /\ ~threads.hook.overlapped => UsedOneConfig

\* a request made after a finished re-activation was rewritten with the new
\* token and the new base URL
C14_Witness ==
    /\ threads.hook.pc = "done" /\ threads.hook.result.hooked
    /\ threads.hook.result.intercepted
    /\ ~threads.hook.overlapped /\ ~threads.disabled
    /\ Cardinality(threads.configs) = 2
    /\ threads.writer.todo = <<>>
    /\ threads.hook.used["proxy_token"] = PyStr(<<"secret">>)
    /\ threads.hook.used["proxy_token"] = state.proxy_token
    /\ threads.hook.result.sent.url = <<"fw.test", "/", "forward">>

\* C15: a request whose URL urlparse refuses is delegated to the original
\* exactly as called, in both modes, and nothing is raised by the hook.
C15_ParseFailurePassesThrough ==
    (call.op = "request" /\ state.active /\ urlparse_raises(call.url)) =>
        /\ SentAsCalled
        /\ call.sent.via = state.original_request
        /\ ~call.intercepted

\* an unparsable URL was passed through in intercept-all mode
C15_Witness ==
    /\ call.op = "request" /\ state.active /\ state.intercept_all
    /\ urlparse_raises(call.url)
    /\ call.kwargs = RichKwargs
    /\ call.sent.raised = "None"

\* C16: with no cached forwarder hostname, intercept-all mode rewrites every
\* request, also one whose URL has no hostname; and setup_proxy with a truthy
\* token does not fail on such a base URL.
C16_NoForwarderHostInterceptsAll ==
    /\ (call.op = "request" /\ state.active /\ state.intercept_all
          /\ state.forwarder_host = PyNone /\ ~urlparse_raises(call.url)) =>
            (SentToForwarder /\ call.intercepted)
    /\ (call.op = "setup_proxy" /\ Truthy(call.proxy_token)) => call.raised = "None"

\* C17: active, hook installed and original saved hold together or not at
\* all; when inactive, Session.request is one of the library's entry points.
C17_ActiveIffPatched ==
    /\ state.active <=> (Session_request = "_patched_request")
    /\ state.active <=> (state.original_request # "None")
    /\ ~state.active => Session_request \in LibraryEntries
    /\ state.active => state.original_request = before_patch
    /\ (~state.active /\ before_patch # "None") => Session_request = before_patch

\* inactive again after an activation over a third-party wrapper
C17_Witness ==
    /\ ~state.active
    /\ call.op = "disable_proxy" /\ call.was_active
    /\ Session_request = "wrapped_request"
    /\ state.intercept_all

\* C18: the hook always finds a saved original: once it has read
\* _state["original_request"] the value is not None, and what it delegates
\* to is callable, whatever disable_proxy did in between.
C18_HookFindsOriginal ==
    /\ threads.hook.pc \in {"293", "305", "316", "317"} =>
          threads.hook.original_request # "None"
    /\ (threads.hook.pc = "done" /\ threads.hook.result.hooked) =>
          /\ threads.hook.original_request # "None"
          /\ threads.hook.result.sent.raised = "None"

\* C19: the token headers are only on requests sent to <base URL>/forward; a
\* request that is passed through has exactly the caller's headers and params.
C19_TokenOnlyToForwarder ==
    (call.op = "request") =>
        \/ /\ call.intercepted
           /\ call.sent.url = state.proxy_base_url.val \o <<"/", "forward">>
        \/ /\ ~call.intercepted
           /\ call.sent.kwargs.headers = call.kwargs.headers
           /\ call.sent.kwargs.params = call.kwargs.params
           /\ call.sent.url = call.url

\* a request to a host outside the set, whose caller had set headers, passed through
C19_Witness ==
    /\ call.op = "request" /\ state.active /\ ~call.intercepted
    /\ ~state.intercept_all
    /\ call.kwargs.headers.tag = "dict"
    /\ "X-Custom" \in DOMAIN call.kwargs.headers.val
    /\ call.sent.kwargs.headers = call.kwargs.headers
    /\ hostname(call.url) = PyStr(<<"example.com">>)

====
